---- MODULE Spec2Model ----
(***************************************************************************)
(* Model of mini-rs (src/src/main.rs): a terminal text viewer with a line  *)
(* store (Text), a scrolling viewport (View), a buffer (Buffer) holding a  *)
(* linear cursor offset (point) and a read-key / mutate / render loop.     *)
(*                                                                         *)
(* A line is a sequence of bytes; String::len() is Len of that sequence.   *)
(* Offsets count bytes, as the program does.  usize arithmetic is modelled *)
(* modulo Modulus; an operation that leaves the range is recorded as an    *)
(* "overflow" fault, which panics when overflow checks are compiled in and *)
(* wraps otherwise (both outcomes are explored).  An out-of-range index    *)
(* is an "index" fault and always panics.                                  *)
(***************************************************************************)
EXTENDS Integers, Sequences, FiniteSets, TLC

\* Bounds of the model.
MaxLines == 3
MaxLineLen == 1
MaxRows == 3
WordBits == 8

Modulus == 2 ^ WordBits
Chars == {"a"}

VARIABLES
    point,      \* Buffer.point
    view,       \* Buffer.view : [y, height]
    data,       \* Buffer.data : [length, newlines, text]
    size,       \* size.1 of main: the terminal's rows
    key,        \* the key event the loop handled last ("none" before the first)
    pc,         \* "loop": blocked reading a key; "done": after quit; "panicked";
                \* "exited": ended by die!
    fault,      \* the bounds fault met while handling the last key, or "none"
    env,        \* what main found: [arg, open, read] (argument given, file
                \* opened, file read without error)
    status,     \* the process's exit status, or "running"
    stderr,     \* what was written to the error stream: "none", a one-line
                \* diagnostic of die! ("usage", "open_error"), or "panic"
    ops,        \* Buffer operations called for the last key event
    renders,    \* display calls completed for the last key event (at load:
                \* the first display)
    screen      \* what the last completed display wrote

vars == <<point, view, data, size, key, pc, fault, env, status, stderr, ops,
          renders, screen>>

----------------------------------------------------------------------------
\* Helpers for unsigned machine arithmetic.

Min(a, b) == IF a < b THEN a ELSE b
Max(a, b) == IF a > b THEN a ELSE b

\* a - b on usize: wrapped value and whether it left the range.
USub(a, b) == [v |-> (a - b) % Modulus, of |-> a < b]
\* a + b on usize.
UAdd(a, b) == [v |-> (a + b) % Modulus, of |-> a + b >= Modulus]

\* Does a fault abort the process?  chk: overflow checks are compiled in.
Panics(f, chk) == f = "index" \/ (f = "overflow" /\ chk)

\* The fault of two steps run in sequence (the second runs only when the
\* first did not panic).
Worst(f, g) ==
    IF "index" \in {f, g} THEN "index"
    ELSE IF "overflow" \in {f, g} THEN "overflow"
    ELSE "none"

\* Vec::remove(i), i 0-based and in range.
RemoveAt(s, i) == SubSeq(s, 1, i) \o SubSeq(s, i + 2, Len(s))

----------------------------------------------------------------------------
\* View

\* Mutant: scrolling down puts the line one row below the window.
View_adjust_off_by_one(v, line, chk) ==
    IF line < v.y
    THEN [view |-> [v EXCEPT !.y = line], fault |-> "none"]
    ELSE IF line >= v.y + v.height /\ line >= v.height
         THEN [view |-> [v EXCEPT !.y = line - v.height], fault |-> "none"]
         ELSE [view |-> v, fault |-> "none"]

\* Mutant: scrolling down assigns the height instead of the origin.
View_adjust_sets_height(v, line, chk) ==
    IF line < v.y
    THEN [view |-> [v EXCEPT !.y = line], fault |-> "none"]
    ELSE IF line >= v.y + v.height /\ line >= v.height
         THEN [view |-> [v EXCEPT !.height = line - v.height + 1],
               fault |-> "none"]
         ELSE [view |-> v, fault |-> "none"]

View_adjust(v, line, chk) ==
    IF line < v.y
    THEN [view |-> [v EXCEPT !.y = line], fault |-> "none"]
    ELSE LET s == UAdd(v.y, v.height) IN
         IF s.of /\ chk
         THEN [view |-> v, fault |-> "overflow"]
         ELSE IF line >= s.v
              THEN LET d == USub(line, v.height)
                       e == UAdd(d.v, 1)
                       f == IF s.of \/ d.of \/ e.of THEN "overflow" ELSE "none"
                   IN  IF Panics(f, chk)
                       THEN [view |-> v, fault |-> f]
                       ELSE [view |-> [v EXCEPT !.y = e.v], fault |-> f]
              ELSE [view |-> v, fault |-> IF s.of THEN "overflow" ELSE "none"]

----------------------------------------------------------------------------
\* Text

RECURSIVE from_file_loop(_, _, _, _, _)
from_file_loop(ls, k, text, length, newlines) ==
    IF k > Len(ls)
    THEN [length   |-> IF length = 0 THEN 0 ELSE length - 1,
          newlines |-> newlines,
          text     |-> text]
    ELSE from_file_loop(ls, k + 1, Append(text, ls[k]),
                        length + Len(ls[k]) + 1, newlines + 1)

\* ls: the lines reader.lines() yields for the file.
Text_from_file(ls) == from_file_loop(ls, 1, <<>>, 0, 0)

RECURSIVE line_at_loop(_, _, _, _, _, _)
line_at_loop(text, p, k, line, start, len) ==
    IF k > Len(text)
    THEN [line |-> line, start |-> start, len |-> len]
    ELSE LET l == Len(text[k]) IN
         IF p > start + l
         THEN line_at_loop(text, p, k + 1, line + 1, start + l + 1, l)
         ELSE [line |-> line, start |-> start, len |-> l]

\* Mutant: the tie at start + len goes to the next line (p >= start + len).
RECURSIVE line_at_next_loop(_, _, _, _, _, _)
line_at_next_loop(text, p, k, line, start, len) ==
    IF k > Len(text)
    THEN [line |-> line, start |-> start, len |-> len]
    ELSE LET l == Len(text[k]) IN
         IF p >= start + l
         THEN line_at_next_loop(text, p, k + 1, line + 1, start + l + 1, l)
         ELSE [line |-> line, start |-> start, len |-> l]

line_at_next(d, p) == line_at_next_loop(d.text, p, 1, 0, 0, 0)

line_at(d, p) == line_at_loop(d.text, p, 1, 0, 0, 0)

\* Mutant: the newline of the deleted line is not subtracted from length.
Text_delete_line_no_newline(d, line, chk) ==
    IF d.newlines > 0 /\ line < Len(d.text)
    THEN [data |-> [length   |-> IF d.newlines = 1 THEN 0
                                 ELSE d.length - Len(d.text[line + 1]),
                    newlines |-> d.newlines - 1,
                    text     |-> RemoveAt(d.text, line)],
          fault |-> "none"]
    ELSE [data |-> d, fault |-> "none"]

\* Mutant: the last line is removed instead of the line asked for.
Text_delete_line_pop(d, line, chk) ==
    IF d.newlines > 0 /\ line < Len(d.text)
    THEN [data |-> [length   |-> IF d.newlines = 1 THEN 0
                                 ELSE d.length - (Len(d.text[line + 1]) + 1),
                    newlines |-> d.newlines - 1,
                    text     |-> SubSeq(d.text, 1, Len(d.text) - 1)],
          fault |-> "none"]
    ELSE [data |-> d, fault |-> "none"]

Text_delete_line(d, line, chk) ==
    IF d.newlines > 0
    THEN IF d.newlines = 1
         THEN LET d1 == [d EXCEPT !.length = 0, !.newlines = 0] IN
              IF line >= Len(d.text)
              THEN [data |-> d1, fault |-> "index"]
              ELSE [data |-> [d1 EXCEPT !.text = RemoveAt(d.text, line)],
                    fault |-> "none"]
         ELSE IF line >= Len(d.text)
              THEN [data |-> d, fault |-> "index"]
              ELSE LET s == USub(d.length, Len(d.text[line + 1]) + 1)
                       f == IF s.of THEN "overflow" ELSE "none"
                   IN  IF Panics(f, chk)
                       THEN [data |-> d, fault |-> f]
                       ELSE [data |-> [length   |-> s.v,
                                       newlines |-> d.newlines - 1,
                                       text     |-> RemoveAt(d.text, line)],
                             fault |-> f]
    ELSE [data |-> d, fault |-> "none"]

----------------------------------------------------------------------------
\* Buffer: a record [point, view, data].  Every operation yields the buffer
\* it leaves (at its end, or where it panicked) and the fault it met.

Buffer_load(ls, rows) ==
    [point |-> 0,
     view  |-> [y |-> 0, height |-> rows - 1],
     data  |-> Text_from_file(ls)]

lines(b) == b.data.newlines

\* The tail shared by the movement operations: resolve the line, adjust.
AdjustTo(b, line, chk) ==
    LET a == View_adjust(b.view, line, chk)
    IN  [b |-> [b EXCEPT !.view = a.view], fault |-> a.fault]

\* Mutant: the cursor is not clamped to the length.
move_right_unclamped(b, chk) ==
    LET b1 == [b EXCEPT !.point = b.point + 1]
    IN  AdjustTo(b1, line_at(b1.data, b1.point).line, chk)

move_right(b, chk) ==
    LET b1 == [b EXCEPT !.point = Max(0, Min(b.data.length, b.point + 1))]
    IN  AdjustTo(b1, line_at(b1.data, b1.point).line, chk)

\* Mutant: move-left stops at column 0 of the current line.
move_left_in_line(b, chk) ==
    LET r  == line_at(b.data, b.point)
        b1 == IF b.point > r.start
              THEN [b EXCEPT !.point = b.point - 1]
              ELSE b
    IN  AdjustTo(b1, line_at(b1.data, b1.point).line, chk)

move_left(b, chk) ==
    LET b1 == IF b.point > 0
              THEN [b EXCEPT !.point = Max(0, b.point - 1)]
              ELSE b
    IN  AdjustTo(b1, line_at(b1.data, b1.point).line, chk)

\* Mutant: move-end-of-line steps past the newline.
move_end_of_line_past(b, chk) ==
    LET r == line_at(b.data, b.point)
    IN  [b |-> [b EXCEPT !.point = Min(b.data.length, r.start + r.len + 1)],
         fault |-> "none"]

move_end_of_line(b, chk) ==
    LET r == line_at(b.data, b.point)
    IN  [b |-> [b EXCEPT !.point = r.start + r.len], fault |-> "none"]

move_start_of_line(b, chk) ==
    LET r == line_at(b.data, b.point)
    IN  [b |-> [b EXCEPT !.point = r.start], fault |-> "none"]

\* Mutant: move-down stops on the newline position of the current line.
move_down_no_newline(b, chk) ==
    LET r  == line_at(b.data, b.point)
        b1 == [b EXCEPT !.point = Min(b.data.length, r.start + r.len)]
    IN  AdjustTo(b1, line_at(b1.data, b1.point).line, chk)

\* Mutant: move-down is not clamped to the length.
move_down_unclamped(b, chk) ==
    LET r  == line_at(b.data, b.point)
        b1 == [b EXCEPT !.point = r.start + r.len + 1]
    IN  AdjustTo(b1, line_at(b1.data, b1.point).line, chk)

move_down(b, chk) ==
    LET r  == line_at(b.data, b.point)
        b1 == [b EXCEPT !.point = Min(b.data.length, r.start + r.len + 1)]
    IN  AdjustTo(b1, line_at(b1.data, b1.point).line, chk)

\* Mutant: move-up stops at the end of the previous line.
move_up_to_end(b, chk) ==
    LET r  == line_at(b.data, b.point)
        b1 == IF r.start = 0
              THEN [b EXCEPT !.point = 0]
              ELSE [b EXCEPT !.point = r.start - 1]
    IN  AdjustTo(b1, line_at(b1.data, b1.point).line, chk)

move_up(b, chk) ==
    LET r  == line_at(b.data, b.point)
        b1 == IF r.start = 0
              THEN [b EXCEPT !.point = 0]
              ELSE [b EXCEPT !.point = line_at(b.data, r.start - 1).start]
    IN  AdjustTo(b1, line_at(b1.data, b1.point).line, chk)

move_start(b, chk) ==
    AdjustTo([b EXCEPT !.point = 0], 0, chk)

move_end(b, chk) ==
    LET l == USub(lines(b), 1) IN
    IF l.of /\ chk
    THEN [b |-> b, fault |-> "overflow"]
    ELSE LET r == AdjustTo([b EXCEPT !.point = b.data.length], l.v, chk)
         IN  [b |-> r.b, fault |-> Worst(IF l.of THEN "overflow" ELSE "none", r.fault)]

\* Mutant: the cursor is not clamped to the new length.
delete_line_unclamped(b, chk) ==
    LET r  == line_at(b.data, b.point)
        t  == Text_delete_line(b.data, r.line, chk)
        b1 == [b EXCEPT !.data = t.data, !.point = r.start]
        a  == AdjustTo(b1, line_at(b1.data, b1.point).line, chk)
    IN  [b |-> a.b, fault |-> Worst(t.fault, a.fault)]

delete_line(b, chk) ==
    LET r == line_at(b.data, b.point)
        t == Text_delete_line(b.data, r.line, chk)
    IN  IF Panics(t.fault, chk)
        THEN [b |-> [b EXCEPT !.data = t.data], fault |-> t.fault]
        ELSE LET b1 == [b EXCEPT !.data = t.data,
                                 !.point = Max(0, Min(t.data.length, r.start))]
                 a  == AdjustTo(b1, line_at(b1.data, b1.point).line, chk)
             IN  [b |-> a.b, fault |-> Worst(t.fault, a.fault)]

\* Mutant: page-down repeats move-down one time fewer (the viewport height
\* instead of the terminal height).
RECURSIVE page_down_short(_, _, _)
page_down_short(b, n, chk) ==
    IF n <= 1
    THEN [b |-> b, fault |-> "none", calls |-> 0]
    ELSE LET r == move_down(b, chk)
             q == page_down_short(r.b, n - 1, chk)
         IN  [b |-> q.b, fault |-> Worst(r.fault, q.fault),
              calls |-> q.calls + 1]

\* for _ in 0..size.1 { buf.move_down() }
RECURSIVE page_down(_, _, _)
page_down(b, n, chk) ==
    IF n = 0
    THEN [b |-> b, fault |-> "none", calls |-> 0]
    ELSE LET r == move_down(b, chk) IN
         IF Panics(r.fault, chk)
         THEN [b |-> r.b, fault |-> r.fault, calls |-> 1]
         ELSE LET q == page_down(r.b, n - 1, chk)
              IN  [b |-> q.b, fault |-> Worst(r.fault, q.fault),
                   calls |-> q.calls + 1]

\* for _ in 0..size.1 { buf.move_up() }
RECURSIVE page_up(_, _, _)
page_up(b, n, chk) ==
    IF n = 0
    THEN [b |-> b, fault |-> "none", calls |-> 0]
    ELSE LET r == move_up(b, chk) IN
         IF Panics(r.fault, chk)
         THEN [b |-> r.b, fault |-> r.fault, calls |-> 1]
         ELSE LET q == page_up(r.b, n - 1, chk)
              IN  [b |-> q.b, fault |-> Worst(r.fault, q.fault),
                   calls |-> q.calls + 1]

----------------------------------------------------------------------------
\* Renderer: the faults it can meet (it never changes the buffer).

display_lines(b) ==
    IF lines(b) = 0
    THEN "none"
    ELSE IF b.view.y > Len(b.data.text) THEN "index" ELSE "none"

display_status_line(b) ==
    LET r == line_at(b.data, b.point)
        c == USub(b.point, r.start)
    IN  IF c.of \/ UAdd(c.v, 1).of \/ UAdd(b.view.height, 1).of
        THEN "overflow" ELSE "none"

display_point(b) ==
    LET r   == line_at(b.data, b.point)
        col == USub(b.point, r.start)
        row == USub(r.line, b.view.y)
    IN  IF col.of \/ UAdd(col.v, 1).of \/ row.of \/ UAdd(row.v, 1).of
        THEN "overflow" ELSE "none"

display(b, chk) ==
    LET f1 == display_lines(b) IN
    IF Panics(f1, chk) THEN f1 ELSE
    LET f2 == Worst(f1, display_status_line(b)) IN
    IF Panics(f2, chk) THEN f2 ELSE
    Worst(f2, display_point(b))

\* Renderer: what it writes.  Goto coordinates are the 1-based values the
\* code passes to cursor::Goto.

\* Mutant: the loop stops one row late (ln > height).
RECURSIVE display_lines_loop_late(_, _, _, _, _)
display_lines_loop_late(ls, k, ln, height, out) ==
    IF k > Len(ls)
    THEN out
    ELSE LET out1 == [out EXCEPT !.rows =
                         Append(@, [row |-> ln + 1, line |-> ls[k],
                                    clear |-> "UntilNewline"])]
             ln1  == ln + 1
         IN  IF ln1 >= Len(ls)
             THEN [out1 EXCEPT !.clear_below = TRUE]
             ELSE IF ln1 > height
                  THEN out1
                  ELSE display_lines_loop_late(ls, k + 1, ln1, height, out1)

\* The for loop of display_lines over ls = text[i..]: k is the position in
\* ls, ln the rows written so far.
RECURSIVE display_lines_loop(_, _, _, _, _)
display_lines_loop(ls, k, ln, height, out) ==
    IF k > Len(ls)
    THEN out
    ELSE LET out1 == [out EXCEPT !.rows =
                         Append(@, [row |-> ln + 1, line |-> ls[k],
                                    clear |-> "UntilNewline"])]
             ln1  == ln + 1
         IN  IF ln1 >= Len(ls)
             THEN [out1 EXCEPT !.clear_below = TRUE]
             ELSE IF ln1 >= height
                  THEN out1
                  ELSE display_lines_loop(ls, k + 1, ln1, height, out1)

display_lines_out(b) ==
    IF lines(b) = 0
    THEN [clear_all |-> TRUE, rows |-> <<>>, clear_below |-> FALSE]
    ELSE display_lines_loop(SubSeq(b.data.text, b.view.y + 1, Len(b.data.text)),
                            1, 0, b.view.height,
                            [clear_all |-> FALSE, rows |-> <<>>,
                             clear_below |-> FALSE])

display_status_line_out(b) ==
    LET r == line_at(b.data, b.point)
    IN  [row    |-> UAdd(b.view.height, 1).v,
         column |-> UAdd(USub(b.point, r.start).v, 1).v,
         line   |-> r.line + 1,
         lines  |-> lines(b)]

display_point_out(b) ==
    LET r == line_at(b.data, b.point)
    IN  [x |-> UAdd(USub(b.point, r.start).v, 1).v,
         y |-> UAdd(USub(r.line, b.view.y).v, 1).v]

display_out(b) ==
    [lines  |-> display_lines_out(b),
     status |-> display_status_line_out(b),
     point  |-> display_point_out(b)]

\* Nothing written yet.
NoScreen ==
    [lines  |-> [clear_all |-> FALSE, rows |-> <<>>, clear_below |-> FALSE],
     status |-> [row |-> 0, column |-> 0, line |-> 0, lines |-> 0],
     point  |-> [x |-> 0, y |-> 0]]

----------------------------------------------------------------------------
\* The program

Buf == [point |-> point, view |-> view, data |-> data]

Lines == UNION {[1..n -> Chars] : n \in 0..MaxLineLen}
Files == UNION {[1..n -> Lines] : n \in 0..MaxLines}

\* What main can find at start: no argument; a file that cannot be opened;
\* a file that opens but whose read fails; a file that loads.
Envs ==
    {[arg |-> FALSE, open |-> FALSE, read |-> FALSE],
     [arg |-> TRUE,  open |-> FALSE, read |-> FALSE],
     [arg |-> TRUE,  open |-> TRUE,  read |-> FALSE],
     [arg |-> TRUE,  open |-> TRUE,  read |-> TRUE]}

\* main up to the key loop: the way it ends ("loop": loaded and displayed),
\* the exit status and what went to the error stream.
\*   no argument            -> die!   (args.nth(1) is None)
\*   File::open fails       -> try! returns the io::Error, main calls die!
\*   a line fails to read   -> l.unwrap() panics in Text::from_file
main_start(e) ==
    IF ~e.arg
    THEN [pc |-> "exited", status |-> "1", stderr |-> "usage"]
    ELSE IF ~e.open
    THEN [pc |-> "exited", status |-> "1", stderr |-> "open_error"]
    ELSE IF ~e.read
    THEN [pc |-> "panicked", status |-> "101", stderr |-> "panic"]
    ELSE [pc |-> "loop", status |-> "running", stderr |-> "none"]

\* After main's start: Buffer::load and the first display, or the failure.
Init ==
    \E e \in Envs, ls \in Files, rows \in 1..MaxRows :
        LET m == main_start(e)
            b == Buffer_load(IF m.pc = "loop" THEN ls ELSE <<>>, rows)
        IN
        /\ point = b.point
        /\ view = b.view
        /\ data = b.data
        /\ size = rows
        /\ key = "none"
        /\ pc = m.pc
        /\ fault = "none"
        /\ env = e
        /\ status = m.status
        /\ stderr = m.stderr
        /\ ops = 0
        /\ renders = IF m.pc = "loop" THEN 1 ELSE 0
        /\ screen = IF m.pc = "loop" THEN display_out(b) ELSE NoScreen

\* Mutant: the turn of the loop ends without calling display.
Handle_no_display(k, r, n, chk) ==
    /\ key' = k
    /\ point' = r.b.point
    /\ view' = r.b.view
    /\ data' = r.b.data
    /\ size' = size
    /\ env' = env
    /\ ops' = n
    /\ fault' = r.fault
    /\ renders' = 0
    /\ screen' = screen
    /\ IF Panics(r.fault, chk)
       THEN pc' = "panicked" /\ status' = "101" /\ stderr' = "panic"
       ELSE pc' = "loop" /\ status' = status /\ stderr' = stderr

\* One turn of the loop for a key other than 'q': the match arm, then
\* display.  r is the outcome of the arm, n the Buffer operations it called.
\* display flushes at its end: a display that panics has written nothing.
Handle(k, r, n, chk) ==
    /\ key' = k
    /\ point' = r.b.point
    /\ view' = r.b.view
    /\ data' = r.b.data
    /\ size' = size
    /\ env' = env
    /\ ops' = n
    /\ LET f == IF Panics(r.fault, chk)
               THEN r.fault
               ELSE Worst(r.fault, display(r.b, chk))
       IN  /\ fault' = f
           /\ IF Panics(f, chk)
              THEN /\ pc' = "panicked"
                   /\ status' = "101"
                   /\ stderr' = "panic"
                   /\ renders' = 0
                   /\ screen' = screen
              ELSE /\ pc' = "loop"
                   /\ status' = status
                   /\ stderr' = stderr
                   /\ renders' = 1
                   /\ screen' = display_out(r.b)

KeyRight == pc = "loop" /\ \E chk \in BOOLEAN : Handle("Right", move_right(Buf, chk), 1, chk)
KeyLeft == pc = "loop" /\ \E chk \in BOOLEAN : Handle("Left", move_left(Buf, chk), 1, chk)
KeyDown == pc = "loop" /\ \E chk \in BOOLEAN : Handle("Down", move_down(Buf, chk), 1, chk)
KeyUp == pc = "loop" /\ \E chk \in BOOLEAN : Handle("Up", move_up(Buf, chk), 1, chk)
KeyEnd == pc = "loop" /\ \E chk \in BOOLEAN : Handle("End", move_end_of_line(Buf, chk), 1, chk)
KeyHome == pc = "loop" /\ \E chk \in BOOLEAN : Handle("Home", move_start_of_line(Buf, chk), 1, chk)
KeyPageDown == pc = "loop" /\ \E chk \in BOOLEAN : Handle("PageDown", page_down(Buf, size, chk), page_down(Buf, size, chk).calls, chk)
KeyPageUp == pc = "loop" /\ \E chk \in BOOLEAN : Handle("PageUp", page_up(Buf, size, chk), page_up(Buf, size, chk).calls, chk)
KeyDocEnd == pc = "loop" /\ \E chk \in BOOLEAN : Handle(">", move_end(Buf, chk), 1, chk)
KeyDocStart == pc = "loop" /\ \E chk \in BOOLEAN : Handle("<", move_start(Buf, chk), 1, chk)
KeyDelete == pc = "loop" /\ \E chk \in BOOLEAN : Handle("d", delete_line(Buf, chk), 1, chk)
\* Any key without a binding: no operation, then display.
KeyOther == pc = "loop" /\ \E chk \in BOOLEAN : Handle("other", [b |-> Buf, fault |-> "none"], 0, chk)

\* 'q' breaks out of the loop: no operation, no display.
KeyQuit ==
    /\ pc = "loop"
    /\ key' = "q"
    /\ pc' = "done"
    /\ fault' = "none"
    /\ status' = "0"
    /\ ops' = 0
    /\ renders' = 0
    /\ UNCHANGED <<point, view, data, size, env, stderr, screen>>

Next ==
    \/ KeyRight
    \/ KeyLeft
    \/ KeyDown
    \/ KeyUp
    \/ KeyEnd
    \/ KeyHome
    \/ KeyPageDown
    \/ KeyPageUp
    \/ KeyDocEnd
    \/ KeyDocStart
    \/ KeyDelete
    \/ KeyOther
    \/ KeyQuit

Spec == Init /\ [][Next]_vars

----------------------------------------------------------------------------
\* Vocabulary of the properties.

TypeOK ==
    /\ point \in 0..(Modulus - 1)
    /\ view.y \in 0..(Modulus - 1)
    /\ view.height = size - 1
    /\ pc \in {"loop", "done", "panicked", "exited"}
    /\ status \in {"running", "0", "1", "101"}
    /\ stderr \in {"none", "usage", "open_error", "panic"}
    /\ env \in Envs
    /\ fault \in {"none", "overflow", "index"}

MovementKeys ==
    {"Right", "Left", "Down", "Up", "End", "Home", "PageDown", "PageUp", ">", "<"}

\* Sum of the lengths of the first n lines of text.
RECURSIVE SumLens(_, _)
SumLens(text, n) == IF n = 0 THEN 0 ELSE SumLens(text, n - 1) + Len(text[n])

\* Offset of the first byte of line i (0-based): every earlier line and its
\* newline.
LineStart(text, i) == SumLens(text, i) + i

\* The line the cursor resolves to.
CursorLine == line_at(data, point).line

----------------------------------------------------------------------------
\* C1. Cursor invariant: whatever keys were handled, the cursor offset is
\* within [0, length]; with at least one line the line index line_at gives
\* for the cursor is within [0, line count); with no line the cursor is 0.
CursorInvariant ==
    /\ 0 <= point
    /\ point <= data.length
    /\ (data.newlines > 0 => CursorLine \in 0..(data.newlines - 1))
    /\ (data.newlines = 0 => point = 0)

\* Deleting the last line left lines behind and the cursor was clamped to
\* the new length.
CursorClampedAfterDelete ==
    /\ key = "d"
    /\ pc = "loop"
    /\ data.newlines > 0
    /\ point = data.length
    /\ point > 0

\* C2 (as claimed). Viewport invariant: with a height of at least 1, after
\* every handled key the cursor's line satisfies origin <= line < origin + height.
ViewportInvariant ==
    view.height >= 1 =>
        /\ view.y <= CursorLine
        /\ CursorLine < view.y + view.height

\* C3 (as claimed). With a height of at least 1, no key sequence makes a
\* buffer operation or the renderer subtract below zero, overflow or index
\* out of range.
NoBoundsFault ==
    view.height >= 1 => fault = "none"

\* C5 (as claimed, for a height of at least 1). With zero lines every
\* movement key is handled to completion and leaves the cursor at 0.
EmptyFileMovement ==
    (view.height >= 1 /\ data.newlines = 0 /\ key \in MovementKeys) =>
        /\ pc = "loop"
        /\ point = 0

\* C4. Line store length invariant: the cached length is the sum of the
\* lines' lengths plus one newline between consecutive lines (0 with no
\* line), and the cached line count is the number of stored lines.
LengthInvariant ==
    /\ data.newlines = Len(data.text)
    /\ data.length = IF Len(data.text) = 0
                     THEN 0
                     ELSE SumLens(data.text, Len(data.text)) + Len(data.text) - 1

\* A deletion has left at least two lines, one of them non-empty.
LengthAfterDelete ==
    /\ key = "d"
    /\ pc = "loop"
    /\ data.newlines >= 2
    /\ data.length > data.newlines - 1

\* C6. Effect of Text::delete_line on the line store, for every valid index
\* i of every store the program reaches: with two or more lines the count
\* drops by 1, the length by len(line i) + 1, line i is removed and the
\* other lines keep their order; with one line the count and length become 0.
DeleteLineEffect ==
    \A i \in 0..(Len(data.text) - 1) : \A chk \in BOOLEAN :
        LET r == Text_delete_line(data, i, chk) IN
        /\ r.fault = "none"
        /\ IF data.newlines >= 2
           THEN /\ r.data.newlines = data.newlines - 1
                /\ r.data.length = data.length - (Len(data.text[i + 1]) + 1)
                /\ Len(r.data.text) = Len(data.text) - 1
                /\ \A j \in 1..Len(r.data.text) :
                       r.data.text[j] = IF j <= i THEN data.text[j]
                                        ELSE data.text[j + 1]
           ELSE /\ r.data.newlines = 0
                /\ r.data.length = 0

\* A deletion from a store of two or more lines has happened, and lines of
\* different lengths remain.
DeletedFromSeveral ==
    /\ key = "d"
    /\ pc = "loop"
    /\ data.newlines >= 2
    /\ Len(data.text[1]) # Len(data.text[2])

\* C7. delete-current-line removes the line line_at resolves the cursor to
\* and sets the cursor to min(new length, start offset of the removed line).
DeleteCurrentLine ==
    [][(key' = "d" /\ pc' = "loop" /\ data.newlines > 0) =>
          LET r == line_at(data, point) IN
          /\ r.start <= point
          /\ point <= r.start + r.len
          /\ data'.text = RemoveAt(data.text, r.line)
          /\ data'.newlines = data.newlines - 1
          /\ point' = Min(data'.length, r.start)]_vars

\* A line other than the first was deleted and the cursor sits at the
\* offset where it started.
DeletedInnerLine ==
    /\ key = "d"
    /\ pc = "loop"
    /\ point > 0
    /\ point < data.length
    /\ line_at(data, point).start = point

\* C8. Local invertibility: from a cursor p < length, move-right then
\* move-left ends at p; at p = length move-right leaves the cursor; at
\* p = 0 move-left leaves it at 0.
RightLeftInverse ==
    pc = "loop" =>
        \A c1 \in BOOLEAN, c2 \in BOOLEAN :
            LET r == move_right(Buf, c1)
                l == move_left(r.b, c2)
            IN  /\ (point < data.length =>
                       /\ r.b.point = point + 1
                       /\ l.b.point = point)
                /\ (point = data.length => r.b.point = point)
                /\ (point = 0 => move_left(Buf, c2).b.point = 0)

\* move-left has just stepped back over a newline: the cursor is at the end
\* of a line that is not the last.
LeftAcrossNewline ==
    /\ key = "Left"
    /\ pc = "loop"
    /\ point < data.length
    /\ point = line_at(data, point).start + line_at(data, point).len

\* C9. From every reachable cursor position, move-end-of-line then
\* move-start-of-line ends on the same line, at column 0.
EndThenStartOfLine ==
    pc = "loop" =>
        \A c1 \in BOOLEAN, c2 \in BOOLEAN :
            LET e  == move_end_of_line(Buf, c1).b
                h  == move_start_of_line(e, c2).b
                r2 == line_at(h.data, h.point)
            IN  /\ r2.line = CursorLine
                /\ h.point - r2.start = 0
                /\ h.point = LineStart(data.text, CursorLine)

\* move-start-of-line was handled on an empty last line below other lines.
HomeOnEmptyLastLine ==
    /\ key = "Home"
    /\ pc = "loop"
    /\ data.newlines >= 2
    /\ CursorLine = data.newlines - 1
    /\ line_at(data, point).len = 0

\* C10. Resolve contract: for every offset p in [0, length], line_at(p) is
\* (i, start, len) with i the first line whose end start_i + len_i is not
\* before p, start the sum of (length + 1) over the earlier lines, len the
\* length of line i, and start <= p <= start + len; (0, 0, 0) with no line.
ResolveContract ==
    \A p \in 0..data.length :
        LET r == line_at(data, p)
            n == Len(data.text)
        IN  IF n = 0
            THEN r = [line |-> 0, start |-> 0, len |-> 0]
            ELSE /\ r.line \in 0..(n - 1)
                 /\ p <= LineStart(data.text, r.line) + Len(data.text[r.line + 1])
                 /\ \A j \in 0..(r.line - 1) :
                        p > LineStart(data.text, j) + Len(data.text[j + 1])
                 /\ r.start = LineStart(data.text, r.line)
                 /\ r.len = Len(data.text[r.line + 1])
                 /\ r.start <= p
                 /\ p <= r.start + r.len

\* move-end-of-line put the cursor on the newline position of a non-empty
\* line that has a line after it, and it resolves to that line.
EndAtNewlinePosition ==
    /\ key = "End"
    /\ pc = "loop"
    /\ CursorLine < data.newlines - 1
    /\ line_at(data, point).len > 0
    /\ point = line_at(data, point).start + line_at(data, point).len

----------------------------------------------------------------------------
\* The line indices View::adjust is tried on: those of the store, and one
\* past the last.
AdjustArgs == 0..data.newlines

\* C11. Viewport adjust policy: adjust(line) sets origin = line when
\* line < origin, origin = line - height + 1 when line >= origin + height,
\* and leaves it otherwise; it never changes the height; with height >= 1
\* the result satisfies origin <= line < origin + height.
AdjustPolicy ==
    \A line \in AdjustArgs, chk \in BOOLEAN :
        LET a == View_adjust(view, line, chk) IN
        ~Panics(a.fault, chk) =>
            /\ a.view.height = view.height
            /\ a.view.y = IF line < view.y THEN line
                          ELSE IF line >= view.y + view.height
                               THEN line - view.height + 1
                               ELSE view.y
            /\ (view.height >= 1 =>
                   /\ a.view.y <= line
                   /\ line < a.view.y + a.view.height)

\* move-down has scrolled the window down: the cursor's line is its last row.
ScrolledDown ==
    /\ key = "Down"
    /\ pc = "loop"
    /\ view.height >= 1
    /\ view.y > 0
    /\ CursorLine = view.y + view.height - 1

\* C12. Scrolling by repeated move-down: with height h >= 1, from cursor 0
\* and origin 0, k move-downs in a row (k <= line count - 1) leave the
\* cursor at the start of line k and the origin at max(0, k - h + 1).
ScrollByMoveDown ==
    (pc = "loop" /\ point = 0 /\ view.y = 0 /\ view.height >= 1) =>
        \A k \in 0..(data.newlines - 1), chk \in BOOLEAN :
            LET r == page_down(Buf, k, chk) IN
            /\ r.calls = k
            /\ r.fault = "none"
            /\ line_at(r.b.data, r.b.point).line = k
            /\ r.b.point = LineStart(data.text, k)
            /\ r.b.view.y = Max(0, k - view.height + 1)

\* Move-downs have brought the cursor to the start of the last line, which
\* is the last row of a window that had to scroll.
MovedDownToLastLine ==
    /\ key = "Down"
    /\ pc = "loop"
    /\ view.height >= 1
    /\ data.newlines > view.height
    /\ CursorLine = data.newlines - 1
    /\ point = LineStart(data.text, CursorLine)
    /\ view.y = data.newlines - view.height

\* C13 (as claimed). Error handling at load: when no argument is given, or
\* the file cannot be opened or read, the process ends through die!: one
\* diagnostic line on the error stream and exit status 1, with no key event
\* read and nothing rendered.
LoadFailureReported ==
    (~env.arg \/ ~env.open \/ ~env.read) =>
        /\ pc = "exited"
        /\ status = "1"
        /\ stderr \in {"usage", "open_error"}
        /\ key = "none"
        /\ renders = 0

\* C14 (as claimed). Event loop ordering: when the next event is about to be
\* read, the last key event has triggered exactly one buffer operation and
\* one render; the quit key triggers neither and ends the loop.
OneMutationOneRender ==
    /\ (pc = "loop" /\ key # "none") => (ops = 1 /\ renders = 1)
    /\ key = "q" => (pc = "done" /\ ops = 0 /\ renders = 0)

\* C14 (amended). When the next event is about to be read, the last key
\* event has run its match arm (one Buffer operation for a movement or
\* delete key, terminal-height operations for a page key, none for an
\* unbound key) and then exactly one render; the quit key triggers no
\* operation and no render and ends the loop.
OneArmOneRender ==
    /\ (pc = "loop" /\ key # "none") =>
           /\ renders = 1
           /\ ops = IF key = "other" THEN 0
                    ELSE IF key \in {"PageDown", "PageUp"} THEN size
                    ELSE 1
    /\ key = "q" => (pc = "done" /\ ops = 0 /\ renders = 0)
    /\ pc = "done" => key = "q"

\* A page key was handled on a terminal of several rows: several operations,
\* one render.
PageKeyHandled ==
    /\ key = "PageDown"
    /\ pc = "loop"
    /\ size >= 2
    /\ ops = size
    /\ renders = 1

\* C15. move-down sets the cursor to min(length, line start + line length + 1):
\* from a line that is not the last it lands at column 0 of the next line,
\* from the last line at the total length with the line unchanged; from
\* cursor 0, move-end-of-line gives len(line 0) and move-down one more.
MoveDownTarget ==
    pc = "loop" =>
        \A chk \in BOOLEAN :
            LET r0 == line_at(data, point)
                r  == move_down(Buf, chk)
                r1 == line_at(r.b.data, r.b.point)
                e  == move_end_of_line(Buf, chk)
            IN  /\ r.b.point = Min(data.length, r0.start + r0.len + 1)
                /\ IF r0.line < data.newlines - 1
                   THEN /\ r1.line = r0.line + 1
                        /\ r.b.point = LineStart(data.text, r0.line + 1)
                        /\ r.b.point - r1.start = 0
                   ELSE /\ r.b.point = data.length
                        /\ r1.line = r0.line
                /\ (point = 0 /\ data.newlines >= 2) =>
                       /\ e.b.point = Len(data.text[1])
                       /\ move_down(e.b, chk).b.point = Len(data.text[1]) + 1

\* move-down was handled on a non-empty last line: the cursor is at the
\* total length, past column 0.
MovedDownOnLastLine ==
    /\ key = "Down"
    /\ pc = "loop"
    /\ data.newlines >= 2
    /\ point = data.length
    /\ point > line_at(data, point).start

\* C16. move-up sets the cursor to 0 when the cursor's line starts at
\* offset 0, and otherwise to the start of the line before it (line index
\* - 1, column 0), whether or not either line is empty.
MoveUpTarget ==
    pc = "loop" =>
        \A chk \in BOOLEAN :
            LET r0 == line_at(data, point)
                r  == move_up(Buf, chk)
                r1 == line_at(r.b.data, r.b.point)
            IN  IF r0.start = 0
                THEN r.b.point = 0
                ELSE /\ r.b.point = LineStart(data.text, r0.line - 1)
                     /\ r1.line = r0.line - 1
                     /\ r.b.point - r1.start = 0

\* move-up has landed on an empty line that is neither the first nor the
\* last.
MovedUpToEmptyLine ==
    /\ key = "Up"
    /\ pc = "loop"
    /\ point > 0
    /\ line_at(data, point).len = 0
    /\ CursorLine < data.newlines - 1

\* C17. Render projection of lines: with at least one line, origin o and
\* height h >= 1, the renderer writes exactly lines o .. min(o + h, count) - 1,
\* in order, on rows 1, 2, ..., each followed by clear-to-end-of-row, and
\* clear-below exactly when the last line of the document is among them;
\* with no line it writes clear-whole-screen and no row.
RenderProjection ==
    (pc = "loop" /\ renders = 1 /\ view.height >= 1) =>
        LET out  == screen.lines
            last == Min(view.y + view.height, data.newlines)
        IN  IF data.newlines > 0
            THEN /\ ~out.clear_all
                 /\ Len(out.rows) = last - view.y
                 /\ \A j \in 1..Len(out.rows) :
                        out.rows[j] = [row   |-> j,
                                       line  |-> data.text[view.y + j],
                                       clear |-> "UntilNewline"]
                 /\ out.clear_below <=> (last = data.newlines)
            ELSE /\ out.clear_all
                 /\ out.rows = <<>>
                 /\ ~out.clear_below

\* A key was handled and the window, scrolled down, is full with lines left
\* below it: no clear-below.
RenderedScrolledWindow ==
    /\ key # "none"
    /\ pc = "loop"
    /\ view.height >= 1
    /\ view.y > 0
    /\ Len(screen.lines.rows) = view.height
    /\ ~screen.lines.clear_below

\* C18 (as claimed). Render cursor placement: after every handled key, with
\* height >= 1, the terminal cursor is at 0-based row line - origin, within
\* [0, height) and so not on the status row, and 0-based column
\* cursor - line start, within [0, line length]; the status line reports
\* column cursor - line start + 1, line + 1 and the line count.
CursorPlacement ==
    (pc = "loop" /\ key # "none" /\ view.height >= 1) =>
        LET r == line_at(data, point) IN
        /\ screen.point.y - 1 = r.line - view.y
        /\ screen.point.x - 1 = point - r.start
        /\ screen.point.y - 1 \in 0..(view.height - 1)
        /\ screen.point.y # screen.status.row
        /\ screen.point.x - 1 \in 0..r.len
        /\ screen.status.row = view.height + 1
        /\ screen.status.column = point - r.start + 1
        /\ screen.status.line = r.line + 1
        /\ screen.status.lines = data.newlines

\* C19. page-down is move-down applied terminal-height times (terminal rows
\* = viewport height + 1) and page-up is move-up applied as many times, the
\* viewport adjusted at each step and one render at the end; with at least
\* one line, page-down from line k ends on line
\* min(k + terminal-height, count - 1) and page-up ends at the start of line
\* max(k - terminal-height, 0).
PageKeys ==
    /\ size = view.height + 1
    /\ (pc = "loop" /\ key \in {"PageDown", "PageUp"}) =>
           (ops = size /\ renders = 1)
    /\ (pc = "loop" /\ data.newlines > 0) =>
           \A chk \in BOOLEAN :
               LET k  == CursorLine
                   d  == page_down(Buf, size, chk)
                   u  == page_up(Buf, size, chk)
                   dl == line_at(d.b.data, d.b.point).line
                   ul == line_at(u.b.data, u.b.point).line
               IN  /\ d.calls = size
                   /\ dl = Min(k + size, data.newlines - 1)
                   /\ u.calls = size
                   /\ u.b.point = LineStart(data.text, Max(k - size, 0))
                   /\ ul = Max(k - size, 0)
                   /\ view.height >= 1 =>
                          /\ d.b.view.y <= dl
                          /\ dl < d.b.view.y + view.height
                          /\ u.b.view.y <= ul
                          /\ ul < u.b.view.y + view.height

\* page-down was handled on a terminal of several rows and brought the
\* cursor to the last line, scrolling the window.
PagedDownToLastLine ==
    /\ key = "PageDown"
    /\ pc = "loop"
    /\ size >= 2
    /\ data.newlines > view.height
    /\ CursorLine = data.newlines - 1
    /\ view.y = data.newlines - view.height

\* C20. Frame conditions: a turn of the loop that only renders (an unbound
\* key) changes no Buffer state; no key but delete-current-line changes the
\* line store; move-start-of-line and move-end-of-line change nothing but
\* the cursor, leaving the viewport origin as it was; the viewport height
\* never changes after load.
FrameConditions ==
    [][/\ (key' = "other" => (point' = point /\ view' = view /\ data' = data))
       /\ (key' # "d" => data' = data)
       /\ (key' \in {"Home", "End"} => (view' = view /\ data' = data))
       /\ view'.height = view.height
       /\ size' = size]_vars

\* move-end-of-line moved the cursor within a line of a window that stays
\* scrolled down.
EndOfLineInScrolledWindow ==
    /\ key = "End"
    /\ pc = "loop"
    /\ view.height >= 1
    /\ view.y > 0
    /\ point > line_at(data, point).start

====
